---- MODULE Spec2Model ----
(***************************************************************************)
(* Stock dashboard (streamlit_app.py).  The script is executed top to      *)
(* bottom on every user interaction (one "render pass").  The state that   *)
(* survives a pass is the session state (the watchlist) and the values of  *)
(* the sidebar widgets; everything else is recomputed by the pass.  An     *)
(* uncaught exception aborts the pass at the statement that raised it.     *)
(*                                                                         *)
(* Strings that the program takes apart (metric identifiers) are sequences *)
(* of one-character strings.  An optional value (Python None) is the empty *)
(* sequence, a present value x is <<x>>.  Prices are integers and a        *)
(* percentage rounded to two decimals is an integer count of hundredths.   *)
(***************************************************************************)
EXTENDS Integers, Sequences, FiniteSets, TLC

VARIABLES
    session_state,    \* st.session_state: a dictionary, key -> value
    symbol,           \* "Stock symbol" selectbox
    start_date,       \* "Start date" date_input (days since min_date)
    end_date,         \* "End date" date_input
    interval,         \* "Time internval" selectbox
    chart_selection,  \* "Chart type" selectbox
    metric_choice,    \* position chosen in the "Financial metric" selectbox, 0 when it has no options
    add_log,          \* history: the symbol selected at each "Add to watchlist" click, in order
    history_request,  \* arguments of the last ticker_object.history(...) call, None before the first
    historical_data,  \* rows (dates) of the table the last history call returned
    financial_metric, \* value of the "Financial metric" selectbox in the last pass (label or None)
    view,             \* sections of the page the last pass rendered completely, in order
    exception,        \* exception that aborted the last pass, "none" otherwise
    watch_names,      \* col1 of the watchlist cards rendered by the last pass
    watch_metrics,    \* col2 (st.metric) of the watchlist cards rendered by the last pass
    metric_rows,      \* rows of the statement that .loc[financial_metric] selected in the last pass
    bar,              \* (Year, value) rows handed to st.bar_chart by the last pass
    metric,           \* formatter check: the identifier under format
    formatted,        \* formatter check: re.sub applied once (None before)
    reformatted       \* formatter check: re.sub applied to the formatted label (None before)

dashboard_vars == <<session_state, symbol, start_date, end_date, interval, chart_selection,
                    metric_choice, add_log, history_request, historical_data, financial_metric,
                    view, exception, watch_names, watch_metrics, metric_rows, bar>>
formatter_vars == <<metric, formatted, reformatted>>
vars == <<dashboard_vars, formatter_vars>>

None == << >>
Some(x) == <<x>>

Range(s) == {s[i] : i \in DOMAIN s}

(***************************************************************************)
(* Bounds of the model.                                                    *)
(***************************************************************************)
Today == 2       \* datetime.today(), in days since min_date
MaxClicks == 3   \* "Add to watchlist" clicks in one session
MaxLen == 4      \* length of the identifiers the formatter is checked on

(***************************************************************************)
(* Metric label formatter: re.sub(pattern, ' ', metric).                   *)
(***************************************************************************)
Upper == {"A","B","C","D","E","F","G","H","I","J","K","L","M",
          "N","O","P","Q","R","S","T","U","V","W","X","Y","Z"}
Lower == {"a","b","c","d","e","f","g","h","i","j","k","l","m",
          "n","o","p","q","r","s","t","u","v","w","x","y","z"}
Digit == {"0","1","2","3","4","5","6","7","8","9"}
WordChar == Upper \cup Lower \cup Digit \cup {"_"}

\* the pattern with the lookbehind reduced to (?<![A-Z]): a blank before a capital no longer blocks a match
pattern_without_nonword(s, i) ==
    /\ s[i] \in Upper
    /\ ~(i > 1 /\ s[i-1] \in Upper)

\* r'(?<![A-Z\W])(?=[A-Z])' matches the empty string just before s[i]:
\* s[i] is a capital and no character of [A-Z\W] stands before it.
\* At the start of the string nothing stands before, so the negative
\* lookbehind succeeds there.
pattern(s, i) ==
    /\ s[i] \in Upper
    /\ ~(i > 1 /\ (s[i-1] \in Upper \/ s[i-1] \notin WordChar))

RECURSIVE sub(_, _)
\* re.sub from position i on: every empty match is replaced by ' '
sub(s, i) ==
    IF i > Len(s) THEN << >>
    ELSE (IF pattern(s, i) THEN <<" ">> ELSE << >>) \o <<s[i]>> \o sub(s, i + 1)

format(s) == sub(s, 1)

(***************************************************************************)
(* The data the external collaborators serve in this session.              *)
(***************************************************************************)
\* nasdaq_screener.csv, column "Symbol"
get_tickers_name == <<"GOOGL", "HALT", "DLST">>

\* yf.Ticker(symbol).info:
\*   GOOGL  a complete quote;
\*   HALT   a complete quote whose previous close is 0 (no statement filed yet);
\*   DLST   a delisted symbol, its quote has no shortName.
info(stock) ==
    CASE stock = "GOOGL" -> [shortName |-> "Alphabet Inc.", open |-> 105, previousClose |-> 100,
                             dayLow |-> 104, dayHigh |-> 107]
      [] stock = "HALT"  -> [shortName |-> "Halted Corp.", open |-> 3, previousClose |-> 0,
                             dayLow |-> 3, dayHigh |-> 3]
      [] stock = "DLST"  -> [open |-> 7, previousClose |-> 9, dayLow |-> 7, dayHigh |-> 7]

\* sampling step of each interval, in days
IntervalDays == [i \in {"1d", "5d", "1wk", "1mo", "3mo"} |->
                    CASE i = "1d" -> 1 [] i = "5d" -> 5 [] i = "1wk" -> 7
                      [] i = "1mo" -> 30 [] i = "3mo" -> 90]

\* symbols the provider has price rows for
Traded == {"GOOGL", "HALT"}

\* ticker_object.history(start, end, interval): one row per sampled date in
\* [start, end) for a traded symbol, zero rows otherwise; the table always
\* has the columns Open, High, Low, Close, Volume.
history(sym, start, end, intv) ==
    IF sym \in Traded
    THEN LET n == IF end > start THEN ((end - start - 1) \div IntervalDays[intv]) + 1 ELSE 0
         IN  [k \in 1..n |-> start + (k - 1) * IntervalDays[intv]]
    ELSE << >>

Date(y, m, d) == [year |-> y, month |-> m, day |-> d]

\* ticker_object.get_financials(): a metric-by-period table; the provider
\* names each metric once, in PascalCase or (older releases) with blanks.
\*   index    the metric identifiers, as the provider names them
\*   columns  the period end dates, in the provider's order
\*   values   values[row][column]
get_financials(sym) ==
    CASE sym = "GOOGL" ->
            [index   |-> << <<"E","B","I","T">>,
                            <<"N","e","t","I","n","c","o","m","e">>,
                            <<"g","r","o","s","s","P","r","o","f","i","t">> >>,
             columns |-> << Date(2023, 12, 31), Date(2022, 12, 31), Date(2021, 12, 31) >>,
             values  |-> << <<84, 74, 78>>, <<73, 59, 76>>, <<174, 156, 146>> >>]
      [] sym = "HALT" ->
            [index |-> << >>, columns |-> << >>, values |-> << >>]
      [] sym = "DLST" ->
            [index   |-> << <<"E","B","I","T","D","A">>,
                            <<"N","e","t"," ","I","n","c","o","m","e">> >>,
             columns |-> << Date(2019, 6, 30), Date(2020, 6, 30) >>,
             values  |-> << <<5, 4>>, <<21, 21>> >>]

\* load_financial_data: the statement with its index replaced by the formatted labels
load_financial_data(sym) ==
    LET financial_data == get_financials(sym)
    IN  [financial_data EXCEPT !.index = [i \in DOMAIN financial_data.index |->
                                             format(financial_data.index[i])]]

(***************************************************************************)
(* Display functions.  Each returns what it rendered and the exception     *)
(* that stopped it ("none" when it ran to its end).                        *)
(***************************************************************************)
\* display_fundamental_metrics: ticker_object.info[metric] for the four metrics
display_fundamental_metrics(sym) ==
    IF {"previousClose", "open", "dayLow", "dayHigh"} \subseteq DOMAIN info(sym)
    THEN "none" ELSE "KeyError"

\* round(x, 2) of the quotient num / den, den > 0, in hundredths: Python
\* rounds to the nearest value and a tie to the even one
round2(num, den) ==
    LET q == (num * 100) \div den
        r == (num * 100) % den
    IN  IF 2 * r < den THEN q
        ELSE IF 2 * r > den THEN q + 1
        ELSE IF q % 2 = 0 THEN q ELSE q + 1

\* round(((open - previousClose) / previousClose) * 100, 2), previousClose # 0
percent_change(open, previousClose) ==
    IF previousClose > 0
    THEN round2((open - previousClose) * 100, previousClose)
    ELSE round2((previousClose - open) * 100, 0 - previousClose)

\* one card of the watchlist: col1 writes the name and the symbol, col2 the
\* open price with its change; a missing key or a zero divisor raises
watch_card(stock) ==
    LET quote == info(stock)
    IN  IF "shortName" \notin DOMAIN quote
        THEN [names |-> << >>, metrics |-> << >>, exception |-> "KeyError"]
        ELSE LET name == <<[stock |-> stock, shortName |-> quote.shortName]>>
             IN  IF "open" \notin DOMAIN quote \/ "previousClose" \notin DOMAIN quote
                 THEN [names |-> name, metrics |-> << >>, exception |-> "KeyError"]
                 ELSE IF quote.previousClose = 0
                 THEN [names |-> name, metrics |-> << >>, exception |-> "ZeroDivisionError"]
                 ELSE [names |-> name,
                       metrics |-> <<[stock |-> stock, open |-> quote.open,
                                      change |-> percent_change(quote.open, quote.previousClose)]>>,
                       exception |-> "none"]

RECURSIVE watch_cards(_, _)
\* the loop of display_watch_list from entry i on; it ends at the first card that raises
watch_cards(watch_list, i) ==
    IF i > Len(watch_list) THEN [names |-> << >>, metrics |-> << >>, exception |-> "none"]
    ELSE LET card == watch_card(watch_list[i])
         IN  IF card.exception # "none" THEN card
             ELSE LET rest == watch_cards(watch_list, i + 1)
                  IN  [names |-> card.names \o rest.names,
                       metrics |-> card.metrics \o rest.metrics,
                       exception |-> rest.exception]

display_watch_list(watch_list) == watch_cards(watch_list, 1)

\* a lookup that ignores the label and takes the first row of the statement
loc_first_row(financial_data, label) ==
    IF financial_data.index = << >> THEN {} ELSE {1}

\* financial_data.loc[label]: the rows whose index entry equals the label
loc(financial_data, label) ==
    {i \in DOMAIN financial_data.index : Some(financial_data.index[i]) = label}

\* display_financial_metric: .loc of a label that is not in the index raises
\* KeyError; a label borne by several rows selects a table whose 'Date'
\* column holds strings, and date.year raises AttributeError; otherwise one
\* (Year, value) row per period column, in the order of the columns
display_financial_metric(financial_data, label) ==
    LET rows == loc(financial_data, label)
    IN  IF rows = {}
        THEN [rows |-> rows, bar |-> << >>, exception |-> "KeyError"]
        ELSE IF Cardinality(rows) > 1
        THEN [rows |-> rows, bar |-> << >>, exception |-> "AttributeError"]
        ELSE LET r == CHOOSE i \in rows : TRUE
             IN  [rows |-> rows,
                  bar  |-> [j \in DOMAIN financial_data.columns |->
                               [Year  |-> financial_data.columns[j].year,
                                value |-> financial_data.values[r][j]]],
                  exception |-> "none"]

(***************************************************************************)
(* Session state.                                                          *)
(***************************************************************************)
\* the watchlist emptied on every pass
watchlist_reset(ss) == [k \in DOMAIN ss \cup {"watchlist"} |-> << >>]

\* if 'watchlist' not in st.session_state: st.session_state['watchlist'] = []
watchlist_init(ss) ==
    IF "watchlist" \notin DOMAIN ss
    THEN [k \in DOMAIN ss \cup {"watchlist"} |-> IF k = "watchlist" THEN << >> ELSE ss[k]]
    ELSE ss

\* the append without the membership test
add_unchecked(ss, sym) == [ss EXCEPT !["watchlist"] = Append(@, sym)]

\* if symbol not in st.session_state['watchlist']: ...append(symbol)
add_to_watchlist(ss, sym) ==
    IF sym \notin Range(ss["watchlist"])
    THEN [ss EXCEPT !["watchlist"] = Append(@, sym)]
    ELSE ss

(***************************************************************************)
(* One render pass: the script from its first line to its last.            *)
(***************************************************************************)
min_date == 0        \* datetime.strptime('01-01-2005', '%m-%d-%Y'), the origin of the day count
max_date == Today    \* datetime.today()

Intervals == {"1d", "5d", "1wk", "1mo", "3mo"}
ChartTypes == {"Line graph", "Candlestick"}

\* a selectbox whose options changed shows its first option, None when it has none
first_option(options) == IF options = << >> THEN 0 ELSE 1

Min(S) == CHOOSE x \in S : \A y \in S : x <= y

\* The pass with the button state `clicked` and the widget values given.
\* The sidebar runs first (watchlist, fetches); the page sections follow in
\* the order of the script, and the first one that raises ends the pass.
RenderPass(ss, clicked, sym, sd, ed, intv, chart, choice) ==
    LET ss1 == watchlist_init(ss)
        ss2 == IF clicked THEN add_to_watchlist(ss1, sym) ELSE ss1
        data == history(sym, sd, ed, intv)
        financial_data == load_financial_data(sym)
        label == IF choice \in DOMAIN financial_data.index
                 THEN Some(financial_data.index[choice]) ELSE None
        cards == display_watch_list(ss2["watchlist"])
        fin == display_financial_metric(financial_data, label)
        sections ==
            << [name |-> "title", exception |-> "none"],
               [name |-> "fundamental_metrics", exception |-> display_fundamental_metrics(sym)],
               [name |-> IF chart = "Line graph" THEN "line_graph" ELSE "candle_stick",
                exception |-> "none"],
               [name |-> "trading_volume", exception |-> "none"],
               [name |-> "watch_list", exception |-> cards.exception],
               [name |-> "download_options", exception |-> "none"],
               [name |-> "financial_metric", exception |-> fin.exception] >>
        raised == {i \in DOMAIN sections : sections[i].exception # "none"}
        stop == IF raised = {} THEN Len(sections) + 1 ELSE Min(raised)
        started(name) == \E i \in 1..stop : i <= Len(sections) /\ sections[i].name = name
    IN  [session_state    |-> ss2,
         history_request  |-> Some([start |-> sd, end |-> ed, interval |-> intv]),
         historical_data  |-> data,
         financial_metric |-> label,
         view             |-> [i \in 1..(stop - 1) |-> sections[i].name],
         exception        |-> IF raised = {} THEN "none" ELSE sections[stop].exception,
         watch_names      |-> IF started("watch_list") THEN cards.names ELSE << >>,
         watch_metrics    |-> IF started("watch_list") THEN cards.metrics ELSE << >>,
         metric_rows      |-> IF started("financial_metric") THEN fin.rows ELSE {},
         bar              |-> IF started("financial_metric") THEN fin.bar ELSE << >>]

\* the script runs with these widget values; the widgets keep them
Run(clicked, sym, sd, ed, intv, chart, choice) ==
    \E pass \in {RenderPass(session_state, clicked, sym, sd, ed, intv, chart, choice)} :
        /\ session_state' = pass.session_state
        /\ symbol' = sym
        /\ start_date' = sd
        /\ end_date' = ed
        /\ interval' = intv
        /\ chart_selection' = chart
        /\ metric_choice' = choice
        /\ history_request' = pass.history_request
        /\ historical_data' = pass.historical_data
        /\ financial_metric' = pass.financial_metric
        /\ view' = pass.view
        /\ exception' = pass.exception
        /\ watch_names' = pass.watch_names
        /\ watch_metrics' = pass.watch_metrics
        /\ metric_rows' = pass.metric_rows
        /\ bar' = pass.bar

Loaded == history_request # None

\* the widgets at their default values, before the first pass of the session
InitDashboard ==
    /\ session_state = << >>
    /\ symbol = get_tickers_name[1]
    /\ start_date = min_date
    /\ end_date = max_date
    /\ interval = "1d"
    /\ chart_selection = "Line graph"
    /\ metric_choice = first_option(get_financials(get_tickers_name[1]).index)
    /\ add_log = << >>
    /\ history_request = None
    /\ historical_data = << >>
    /\ financial_metric = None
    /\ view = << >>
    /\ exception = "none"
    /\ watch_names = << >>
    /\ watch_metrics = << >>
    /\ metric_rows = {}
    /\ bar = << >>

InitFormatter ==
    /\ metric = << >>
    /\ formatted = None
    /\ reformatted = None

Init == InitDashboard /\ InitFormatter

\* the page is loaded, or rerun with no widget changed
Rerun ==
    /\ Run(FALSE, symbol, start_date, end_date, interval, chart_selection, metric_choice)
    /\ UNCHANGED <<add_log, formatter_vars>>

\* st.button("Add to watchlist") is clicked
AddToWatchlist ==
    /\ Loaded
    /\ Len(add_log) < MaxClicks
    /\ Run(TRUE, symbol, start_date, end_date, interval, chart_selection, metric_choice)
    /\ add_log' = Append(add_log, symbol)
    /\ UNCHANGED formatter_vars

\* another symbol is chosen; the metric selectbox gets new options
SelectSymbol ==
    /\ Loaded
    /\ \E sym \in Range(get_tickers_name) :
          /\ sym # symbol
          /\ Run(FALSE, sym, start_date, end_date, interval, chart_selection,
                 first_option(get_financials(sym).index))
    /\ UNCHANGED <<add_log, formatter_vars>>

\* st.date_input("Start date", ..., min_value=min_date, max_value=max_date)
SelectStartDate ==
    /\ Loaded
    /\ \E d \in min_date..max_date :
          /\ d # start_date
          /\ Run(FALSE, symbol, d, end_date, interval, chart_selection, metric_choice)
    /\ UNCHANGED <<add_log, formatter_vars>>

\* st.date_input("End date", ..., min_value=min_date, max_value=max_date)
SelectEndDate ==
    /\ Loaded
    /\ \E d \in min_date..max_date :
          /\ d # end_date
          /\ Run(FALSE, symbol, start_date, d, interval, chart_selection, metric_choice)
    /\ UNCHANGED <<add_log, formatter_vars>>

SelectInterval ==
    /\ Loaded
    /\ \E intv \in Intervals :
          /\ intv # interval
          /\ Run(FALSE, symbol, start_date, end_date, intv, chart_selection, metric_choice)
    /\ UNCHANGED <<add_log, formatter_vars>>

SelectChartType ==
    /\ Loaded
    /\ \E chart \in ChartTypes :
          /\ chart # chart_selection
          /\ Run(FALSE, symbol, start_date, end_date, interval, chart, metric_choice)
    /\ UNCHANGED <<add_log, formatter_vars>>

\* st.selectbox("Financial metric", financial_data.index)
SelectMetric ==
    /\ Loaded
    /\ \E choice \in DOMAIN get_financials(symbol).index :
          /\ choice # metric_choice
          /\ Run(FALSE, symbol, start_date, end_date, interval, chart_selection, choice)
    /\ UNCHANGED <<add_log, formatter_vars>>

Next ==
    \/ Rerun
    \/ AddToWatchlist
    \/ SelectSymbol
    \/ SelectStartDate
    \/ SelectEndDate
    \/ SelectInterval
    \/ SelectChartType
    \/ SelectMetric

Spec == Init /\ [][Next]_vars

(***************************************************************************)
(* The formatter on its own: every identifier of the bounded set is        *)
(* formatted, and the label is formatted again.                            *)
(***************************************************************************)
Alphabet == {"e", "B", "T", "_", " "}

RECURSIVE Strings(_)
Strings(n) ==
    IF n = 0 THEN {<< >>}
    ELSE LET shorter == Strings(n - 1)
         IN  shorter \cup {Append(s, c) : s \in {x \in shorter : Len(x) = n - 1}, c \in Alphabet}

EBIT == <<"E","B","I","T">>
ReturnOnEquity == <<"R","e","t","u","r","n","O","n","E","q","u","i","t","y">>
grossProfit == <<"g","r","o","s","s","P","r","o","f","i","t">>

Identifiers == Strings(MaxLen) \cup {EBIT, ReturnOnEquity, grossProfit}

InitFormat ==
    /\ InitDashboard
    /\ metric \in Identifiers
    /\ formatted = None
    /\ reformatted = None

\* financial_metrics = [re.sub(pattern, ' ', metric) for metric in financial_metrics]
FormatMetric ==
    /\ formatted = None
    /\ formatted' = Some(format(metric))
    /\ UNCHANGED <<metric, reformatted, dashboard_vars>>

\* the label is given to the formatter again
FormatLabel ==
    /\ formatted # None
    /\ reformatted = None
    /\ reformatted' = Some(format(formatted[1]))
    /\ UNCHANGED <<metric, formatted, dashboard_vars>>

NextFormat == FormatMetric \/ FormatLabel

SpecFormat == InitFormat /\ [][NextFormat]_vars

(***************************************************************************)
(* Properties.                                                             *)
(***************************************************************************)
watchlist == session_state["watchlist"]

\* the pass got as far as the watchlist section / the financial-metric section
WatchlistReached == Loaded /\ "trading_volume" \in Range(view)
FinancialReached == Loaded /\ "download_options" \in Range(view)

\* the symbols of a log without their repetitions, in the order of first occurrence
FirstAdds(log) ==
    LET first == {i \in DOMAIN log : \A j \in 1..(i - 1) : log[j] # log[i]}
        nth(k) == CHOOSE i \in first : Cardinality({j \in first : j < i}) = k - 1
    IN  [k \in 1..Cardinality(first) |-> log[nth(k)]]

\* C1: whatever was added, the watchlist holds no symbol twice; when every
\* add click so far was on the same symbol the watchlist has length 1.
C1_WatchlistUnique ==
    Loaded =>
        /\ \A i, j \in DOMAIN watchlist : watchlist[i] = watchlist[j] => i = j
        /\ (add_log # << >> /\ \A i \in DOMAIN add_log : add_log[i] = add_log[1])
              => Len(watchlist) = 1

\* C1 witness: the same symbol was added twice
C1_Witness ==
    /\ Loaded
    /\ Len(add_log) = 2
    /\ add_log[1] = add_log[2]
    /\ Len(watchlist) = 1

\* C2: before the first pass the session holds no watchlist and nothing was
\* added; after any passes the watchlist is the sequence of distinct symbols
\* that were selected at the add clicks, in the order of their first add (so
\* it is empty until the first add, and a pass without an add click, which
\* leaves the log alone, leaves the watchlist alone).
C2_WatchlistIsFirstAdds ==
    IF Loaded
    THEN "watchlist" \in DOMAIN session_state /\ watchlist = FirstAdds(add_log)
    ELSE session_state = << >> /\ add_log = << >>

\* C2 witness: two symbols were added, the first one again after the second,
\* and the passes went on with a symbol that was never added
C2_Witness ==
    /\ Loaded
    /\ Len(add_log) = 3
    /\ add_log[1] # add_log[2]
    /\ add_log[3] = add_log[1]
    /\ watchlist = <<add_log[1], add_log[2]>>
    /\ symbol \notin Range(watchlist)

\* C3: a watchlist entry whose previous close is 0 is rendered with its
\* change unavailable and raises nothing; an entry with a previous close
\* other than 0 shows (open - previousClose) / previousClose * 100 to the
\* nearest hundredth (open 105, previous close 100: 5.00).
C3_PercentChange ==
    WatchlistReached =>
        /\ \A stock \in Range(watchlist) :
              ({"shortName", "open", "previousClose"} \subseteq DOMAIN info(stock)
                  /\ info(stock).previousClose = 0)
              => /\ exception # "ZeroDivisionError"
                 /\ \E i \in DOMAIN watch_names : watch_names[i].stock = stock
                 /\ \A i \in DOMAIN watch_metrics : watch_metrics[i].stock # stock
        /\ \A i \in DOMAIN watch_metrics :
              LET open == info(watch_metrics[i].stock).open
                  prev == info(watch_metrics[i].stock).previousClose
                  diff == watch_metrics[i].change * prev - (open - prev) * 10000
              IN  /\ prev # 0
                  /\ 2 * diff <= prev /\ 2 * diff >= 0 - prev
                  /\ (open = 105 /\ prev = 100) => watch_metrics[i].change = 500

\* C4: when the quote of a watchlist entry lacks shortName, open or
\* previousClose, the other entries are still rendered and the pass goes on
\* to the sections after the watchlist.
C4_MissingFieldRendered ==
    LET broken == {stock \in Range(watchlist) :
                      ~({"shortName", "open", "previousClose"} \subseteq DOMAIN info(stock))}
    IN  (WatchlistReached /\ broken # {}) =>
            /\ \A stock \in Range(watchlist) \ broken :
                  \E i \in DOMAIN watch_names : watch_names[i].stock = stock
            /\ "download_options" \in Range(view)

\* C5: a historical fetch of zero rows fails with EmptySeriesError, and the
\* pass draws no chart, volume or download section from the empty table.
C5_EmptySeries ==
    (Loaded /\ historical_data = << >>) =>
        /\ exception = "EmptySeriesError"
        /\ Range(view) \cap {"line_graph", "candle_stick", "trading_volume",
                             "download_options"} = {}

\* C6: the metric offered at position k of the selectbox is the formatted
\* identifier of row k of the statement, and selecting it selects row k and
\* charts the values of row k; a selection that is not among the formatted
\* labels raises the lookup error (pandas' KeyError) and charts nothing.
C6_MetricByLabel ==
    FinancialReached =>
        LET statement == get_financials(symbol)
        IN  IF metric_choice \in DOMAIN statement.index
            THEN /\ financial_metric = Some(format(statement.index[metric_choice]))
                 /\ metric_rows = {metric_choice}
                 /\ exception = "none"
                 /\ Len(bar) = Len(statement.columns)
                 /\ \A j \in DOMAIN bar : bar[j].value = statement.values[metric_choice][j]
            ELSE /\ \A i \in DOMAIN statement.index :
                        Some(format(statement.index[i])) # financial_metric
                 /\ exception = "KeyError"
                 /\ metric_rows = {}
                 /\ bar = << >>
                 /\ "financial_metric" \notin Range(view)

\* C6 witness: a metric other than the first is selected and charted
C6_Witness ==
    /\ FinancialReached
    /\ metric_choice = 2
    /\ metric_rows = {2}
    /\ bar # << >>

\* C6, the other case: the statement has no metric, the lookup raised
C6_NotFoundReached ==
    /\ FinancialReached
    /\ financial_metric = None
    /\ exception = "KeyError"

\* the identifier with one blank before every capital that directly follows
\* a word character that is not a capital, and nothing else changed
Spaced(s) ==
    LET gap(i) == i > 1 /\ s[i] \in Upper /\ s[i-1] \in WordChar \ Upper
        gaps(i) == Cardinality({j \in 1..i : gap(j)})
        pos(i) == i + gaps(i)
    IN  [k \in 1..(Len(s) + gaps(Len(s))) |->
            IF \E i \in DOMAIN s : pos(i) = k
            THEN s[CHOOSE i \in DOMAIN s : pos(i) = k]
            ELSE " "]

\* C7: the formatter puts one blank before every capital that directly
\* follows a non-capital word character and nowhere else, so none before
\* the first character: "EBIT" and "" stay as they are, "ReturnOnEquity"
\* gives "Return On Equity", "grossProfit" gives "gross Profit".
C7_FormatSpaces ==
    formatted # None =>
        /\ formatted[1] = Spaced(metric)
        /\ metric = EBIT => formatted[1] = EBIT
        /\ metric = << >> => formatted[1] = << >>
        /\ metric = ReturnOnEquity =>
              formatted[1] = <<"R","e","t","u","r","n"," ","O","n"," ","E","q","u","i","t","y">>
        /\ metric = grossProfit =>
              formatted[1] = <<"g","r","o","s","s"," ","P","r","o","f","i","t">>

\* C8: formatting a formatted label changes nothing: format(format(x)) = format(x).
C8_FormatIdempotent ==
    reformatted # None => reformatted[1] = formatted[1]

\* C8 witness: an identifier that already holds a blank got another one, and
\* its label was formatted again
C8_Witness ==
    /\ reformatted # None
    /\ " " \in Range(metric)
    /\ Len(formatted[1]) > Len(metric)

\* C9: the years of the rows built for the bar chart never decrease, and
\* each is the calendar year of its period's date.
C9_BarSortedByYear ==
    FinancialReached =>
        /\ \A i, j \in DOMAIN bar : i < j => bar[i].Year <= bar[j].Year
        /\ \A j \in DOMAIN bar : bar[j].Year = get_financials(symbol).columns[j].year

\* C10: every historical fetch has start_date <= end_date <= today and an
\* interval of the fixed set.
C10_FetchRange ==
    history_request # None =>
        /\ history_request[1].start <= history_request[1].end
        /\ history_request[1].end <= Today
        /\ history_request[1].interval \in Intervals

====
